---- MODULE Spec2Model ----
(***************************************************************************)
(* Model of the advanced multi-strategy codec of src/compress.c:           *)
(* advanced_compress and advanced_decompress, driven the way               *)
(* run_single_test drives them (compress a copy of the input, copy the     *)
(* compressed bytes into a fresh buffer, decompress, compare), and         *)
(* advanced_decompress called directly on a byte stream.                   *)
(*                                                                         *)
(* Buffers are sequences of integers 0..255; C index i is TLA+ index i+1.  *)
(* One action is one iteration of a main loop or one function return.      *)
(***************************************************************************)
EXTENDS Integers, Sequences, FiniteSets, TLC

VARIABLES
  pc,             \* "compress", "decompress" or "done"
  entry,          \* "roundtrip" (run_single_test) or "decode" (a given stream)
  original_data,  \* the caller's bytes: the input of run_single_test, or the given stream
  data_ptr,       \* the bytes data_ptr[0 .. data_size-1] of the working buffer
  data_size,      \* data_size of advanced_compress, compressed_size of advanced_decompress
  in_pos,         \* read cursor of the running function
  output,         \* output[0 .. out_pos-1] of the running function
  tokens,         \* the tokens advanced_compress has emitted, in order
  expanded,       \* the tokens advanced_decompress has expanded, in order
  oob_read,       \* advanced_decompress has read the stream at an index >= compressed_size
  bad_idx         \* advanced_decompress has indexed common_values outside 0..7

vars == <<pc, entry, original_data, data_ptr, data_size, in_pos, output,
          tokens, expanded, oob_read, bad_idx>>

(***************************************************************************)
(* Format constants                                                        *)
(***************************************************************************)
MODE_RLE == 128
MODE_DELTA == 192
MODE_NIBBLE == 64
MODE_LITERAL == 0
MODE_MASK == 192
LENGTH_MASK == 63
EXT_PATTERN == 224
EXT_ZERO_RUN == 240
EXT_INCR_SEQ == 241
EXT_COMMON_VAL == 242
NUM_COMMON_VALUES == 8

common_values == <<0, 1, 2, 3, 4, 255, 127, 32>>

(***************************************************************************)
(* Bounds of the model                                                     *)
(***************************************************************************)
MaxLen == 4
MaxProgLen == 66
MaxRunLen == 66
MaxZeros == 300
MaxRepeats == 17
MaxStreamLen == 3

(***************************************************************************)
(* Helpers                                                                 *)
(***************************************************************************)
At(s, i) == s[i + 1]

Slice(s, from, len) == [j \in 1..len |-> s[from + j]]

Fill(v, len) == [j \in 1..len |-> v]

\* x & m for a mask m = 2^k - 1, on a two's-complement integer of any sign
AndLow(x, pow) == x % pow

\* (uint8_t) x
U8(x) == x % 256

\* a | b on non-negative integers
RECURSIVE BitOr(_, _)
BitOr(a, b) ==
  IF a = 0 THEN b
  ELSE IF b = 0 THEN a
  ELSE (IF a % 2 = 1 \/ b % 2 = 1 THEN 1 ELSE 0) + 2 * BitOr(a \div 2, b \div 2)

\* size_t subtraction a - b without evaluating 2^64: the value denoted is
\* a - b when not wrapped, and 2^64 + (a - b) when wrapped
SizeSub(a, b) == [wrapped |-> a < b, diff |-> a - b]

\* x > y on two size_t values in the representation of SizeSub
SizeGt(x, y) == IF x.wrapped = y.wrapped THEN x.diff > y.diff ELSE x.wrapped

\* a C loop whose condition is tested at k = from, from+1, ...: given the
\* set of the k at which the condition fails, the k at which the loop exits
LoopExit(exits) == CHOOSE k \in exits : \A j \in exits : k <= j

(***************************************************************************)
(* Strategy evaluators                                                     *)
(***************************************************************************)

\* inner loop of find_pattern: the number of consecutive copies of the unit
\* data[start .. start+pattern_len-1], the unit itself included
pattern_matches(data, start, n, pattern_len) ==
  LET Cont(matches) ==
        /\ start + matches * pattern_len + pattern_len <= n
        /\ Slice(data, start, pattern_len)
             = Slice(data, start + matches * pattern_len, pattern_len)
  IN LoopExit({k \in 1..n : ~Cont(k)})

\* the test that replaces best; both sides are size_t
pattern_better(matches, pattern_len, best) ==
  SizeGt(SizeSub(matches * pattern_len, 2 + pattern_len),
         SizeSub(best.count * best.length, 2 + best.length))

RECURSIVE find_pattern_loop(_, _, _, _, _)
find_pattern_loop(data, start, n, pattern_len, best) ==
  IF pattern_len <= 16 /\ start + pattern_len * 2 <= n
    THEN LET matches == pattern_matches(data, start, n, pattern_len)
             nbest == IF matches >= 2 /\ pattern_better(matches, pattern_len, best)
                        THEN [pattern |-> Slice(data, start, pattern_len),
                              length |-> pattern_len, count |-> matches]
                        ELSE best
         IN find_pattern_loop(data, start, n, pattern_len + 1, nbest)
    ELSE best

find_pattern(data, start, n) ==
  find_pattern_loop(data, start, n, 2, [pattern |-> <<>>, length |-> 0, count |-> 0])

\* the extension loop of is_delta_sequence: the final *length
delta_extend(data, start, n, delta) ==
  LET Cont(i) ==
        /\ i < n
        /\ i - start < 63
        /\ At(data, i) = AndLow(At(data, i - 1) + delta, 128)
  IN LoopExit({k \in (start + 2)..n : ~Cont(k)}) - start

\* is_delta_sequence: the result and the two out parameters
is_delta_sequence(data, start, n) ==
  IF start + 2 > n
    THEN [ok |-> FALSE, delta |-> 0, length |-> 0]
    ELSE LET delta == At(data, start + 1) - At(data, start)
             length == delta_extend(data, start, n, delta)
         IN [ok |-> (length >= 3) /\ (delta >= -15 /\ delta <= 15),
             delta |-> delta, length |-> length]

\* the loop of can_nibble_pack: the final *length
nibble_scan(data, start, n) ==
  LET Cont(i) == i < n /\ i < start + 62 /\ At(data, i) < 16
  IN LoopExit({k \in start..n : ~Cont(k)}) - start

\* can_nibble_pack: the result and the out parameter
can_nibble_pack(data, start, n) ==
  LET length == nibble_scan(data, start, n)
  IN [ok |-> length >= 4, length |-> length]

\* cap of one zero-run token
ZeroRunCap == 255

\* zero_scan with the cap test off by one (zero_count <= 255)
zero_scan_over(data, n, pos) ==
  LET Cont(zero_count) ==
        /\ pos + zero_count < n
        /\ At(data, pos + zero_count) = 0
        /\ zero_count <= ZeroRunCap
  IN LoopExit({k \in 1..n : ~Cont(k)})

\* the zero-run loop: the final zero_count
zero_scan(data, n, pos) ==
  LET Cont(zero_count) ==
        /\ pos + zero_count < n
        /\ At(data, pos + zero_count) = 0
        /\ zero_count < ZeroRunCap
  IN LoopExit({k \in 1..n : ~Cont(k)})

\* the run-length loop: the final run_length
run_scan(data, n, pos) ==
  LET Cont(run_length) ==
        /\ pos + run_length < n
        /\ At(data, pos + run_length) = At(data, pos)
        /\ run_length < 63
  IN LoopExit({k \in 1..n : ~Cont(k)})

\* the palette lookup loop: the first index holding v, or -1
RECURSIVE common_lookup(_, _)
common_lookup(v, i) ==
  IF i < NUM_COMMON_VALUES
    THEN IF At(common_values, i) = v THEN i ELSE common_lookup(v, i + 1)
    ELSE -1

\* the look-ahead run counted inside the literal loop (not capped)
ahead_scan(data, n, pos) ==
  LET Cont(ahead_run) ==
        /\ pos + ahead_run < n
        /\ At(data, pos + ahead_run) = At(data, pos)
  IN LoopExit({k \in 1..n : ~Cont(k)})

\* cap of one literal token
LiteralCap == 63

\* literal_scan stopping at a look-ahead run of 2 already, below the run
\* length the run strategy accepts
literal_scan_eager(data, n, pos) ==
  LET Cont(literal_count) ==
        /\ pos + literal_count < n
        /\ literal_count < LiteralCap
        /\ ~(ahead_scan(data, n, pos + literal_count) >= 2)
        /\ ~is_delta_sequence(data, pos + literal_count, n).ok
  IN LoopExit({k \in 0..LiteralCap : ~Cont(k)})

\* the literal loop, entered with in_pos = pos: the final literal_count (the
\* loop ends by its condition or by one of its two breaks)
literal_scan(data, n, pos) ==
  LET Cont(literal_count) ==
        /\ pos + literal_count < n
        /\ literal_count < LiteralCap
        /\ ~(ahead_scan(data, n, pos + literal_count) >= 3)
        /\ ~is_delta_sequence(data, pos + literal_count, n).ok
  IN LoopExit({k \in 0..LiteralCap : ~Cont(k)})

\* the packed payload of a nibble token
nibble_bytes(data, pos, nibble_length) ==
  LET pairs == nibble_length \div 2
      packed == [i \in 1..pairs |->
                   U8(BitOr(At(data, pos + (i - 1) * 2) * 16, At(data, pos + (i - 1) * 2 + 1)))]
  IN IF nibble_length % 2 = 1
       THEN Append(packed, U8(At(data, pos + nibble_length - 1) * 16))
       ELSE packed

\* minimum run length for a Run or CommonRun token
MinRun == 3

\* rle_or_literal with the palette form taken for runs up to 16, one more
\* than the 4-bit count field holds
rle_or_literal_wide(data, n, pos) ==
  LET current == At(data, pos)
      run_length == run_scan(data, n, pos)
      common_idx == common_lookup(current, 0)
      literal_count == literal_scan(data, n, pos)
  IN IF run_length >= MinRun
       THEN IF common_idx >= 0 /\ run_length <= 16
              THEN [kind |-> "CommonRun",
                    bytes |-> <<EXT_COMMON_VAL, U8(BitOr(run_length * 16, common_idx))>>,
                    cover |-> run_length]
              ELSE [kind |-> "Run",
                    bytes |-> <<BitOr(MODE_RLE, U8(run_length)), current>>,
                    cover |-> run_length]
       ELSE [kind |-> "Literal",
             bytes |-> <<BitOr(MODE_LITERAL, U8(literal_count))>> \o Slice(data, pos, literal_count),
             cover |-> literal_count]

\* rle_or_literal with runs of 2 already taken as runs
rle_or_literal_short(data, n, pos) ==
  LET current == At(data, pos)
      run_length == run_scan(data, n, pos)
      common_idx == common_lookup(current, 0)
      literal_count == literal_scan(data, n, pos)
  IN IF run_length >= 2
       THEN IF common_idx >= 0 /\ run_length <= 15
              THEN [kind |-> "CommonRun",
                    bytes |-> <<EXT_COMMON_VAL, U8(BitOr(run_length * 16, common_idx))>>,
                    cover |-> run_length]
              ELSE [kind |-> "Run",
                    bytes |-> <<BitOr(MODE_RLE, U8(run_length)), current>>,
                    cover |-> run_length]
       ELSE [kind |-> "Literal",
             bytes |-> <<BitOr(MODE_LITERAL, U8(literal_count))>> \o Slice(data, pos, literal_count),
             cover |-> literal_count]

(***************************************************************************)
(* One iteration of the main loop of advanced_compress at cursor pos:      *)
(* the token kind, the bytes appended to output, the input bytes covered.  *)
(***************************************************************************)
rle_or_literal(data, n, pos) ==
  LET current == At(data, pos)
      run_length == run_scan(data, n, pos)
      common_idx == common_lookup(current, 0)
      literal_count == literal_scan(data, n, pos)
  IN IF run_length >= MinRun
       THEN IF common_idx >= 0 /\ run_length <= 15
              THEN [kind |-> "CommonRun",
                    bytes |-> <<EXT_COMMON_VAL, U8(BitOr(run_length * 16, common_idx))>>,
                    cover |-> run_length]
              ELSE [kind |-> "Run",
                    bytes |-> <<BitOr(MODE_RLE, U8(run_length)), current>>,
                    cover |-> run_length]
       ELSE [kind |-> "Literal",
             bytes |-> <<BitOr(MODE_LITERAL, U8(literal_count))>> \o Slice(data, pos, literal_count),
             cover |-> literal_count]

compress_iteration(data, n, pos) ==
  LET current == At(data, pos)
      zero_count == zero_scan(data, n, pos)
      ds == is_delta_sequence(data, pos, n)
      nb == can_nibble_pack(data, pos, n)
      pattern == find_pattern(data, pos, n)
  IN IF current = 0 /\ zero_count >= 3
       THEN [kind |-> "ZeroRun",
             bytes |-> <<EXT_ZERO_RUN, U8(zero_count)>>,
             cover |-> zero_count]
     ELSE IF ds.ok
       THEN [kind |-> "Delta",
             bytes |-> <<BitOr(MODE_DELTA, U8(ds.length)), At(data, pos), U8(ds.delta + 16)>>,
             cover |-> ds.length]
     ELSE IF nb.ok
       THEN [kind |-> "Nibble",
             bytes |-> <<BitOr(MODE_NIBBLE, U8(nb.length))>> \o nibble_bytes(data, pos, nb.length),
             cover |-> nb.length]
     ELSE IF pattern.count >= 2 /\ pattern.length >= 2
       THEN [kind |-> "Pattern",
             bytes |-> <<EXT_PATTERN, U8(BitOr(pattern.length * 16, pattern.count % 16))>>
                       \o pattern.pattern,
             cover |-> pattern.length * pattern.count]
     ELSE rle_or_literal(data, n, pos)

(***************************************************************************)
(* One iteration of the main loop of advanced_decompress at cursor pos.    *)
(* The stream is buf[0 .. n-1].  The function checks no bound, so a read   *)
(* at an index >= n returns whatever the memory behind the stream holds    *)
(* (run_single_test leaves it uninitialised): g stands for those bytes,    *)
(* h for the byte found behind the 8-entry palette.                        *)
(***************************************************************************)
Rd(buf, n, i, g) == IF i < n THEN At(buf, i) ELSE g

RECURSIVE Repeat(_, _)
Repeat(unit, count) == IF count = 0 THEN <<>> ELSE unit \o Repeat(unit, count - 1)

\* the palette entry the CommonRun expansion reads
palette_value(val_idx, h) ==
  IF val_idx < NUM_COMMON_VALUES THEN At(common_values, val_idx) ELSE h

delta_expand(start, delta, length) ==
  [j \in 1..length |-> AndLow(start + (j - 1) * delta, 128)]

nibble_expand(buf, n, p, length, g) ==
  LET pairs == length \div 2
      body == [j \in 1..(2 * pairs) |->
                 IF j % 2 = 1 THEN Rd(buf, n, p + (j - 1) \div 2, g) \div 16
                              ELSE Rd(buf, n, p + (j - 1) \div 2, g) % 16]
  IN IF length % 2 = 1
       THEN Append(body, Rd(buf, n, p + pairs, g) \div 16)
       ELSE body

\* decompress_iteration with the mode split tested before the escape values
decompress_iteration_split(buf, n, pos, g, h) ==
  LET control == At(buf, pos)
      p == pos + 1
      info == Rd(buf, n, p, g)
      mode == (control \div 64) * 64
      length == control % 64
  IN IF mode = MODE_DELTA
       THEN [kind |-> "Delta",
             out |-> delta_expand(info, Rd(buf, n, p + 1, g) - 16, length),
             next |-> p + 2, reads |-> {p, p + 1}, idx |-> -1]
     ELSE IF control = EXT_ZERO_RUN
       THEN [kind |-> "ZeroRun", out |-> Fill(0, info), next |-> p + 1,
             reads |-> {p}, idx |-> -1]
     ELSE IF control = EXT_PATTERN
       THEN LET pattern_len == info \div 16
                repeat_count == info % 16
                unit == [j \in 1..pattern_len |-> Rd(buf, n, p + j, g)]
            IN [kind |-> "Pattern", out |-> Repeat(unit, repeat_count),
                next |-> p + 1 + pattern_len,
                reads |-> {p} \cup (IF repeat_count > 0 THEN (p + 1)..(p + pattern_len) ELSE {}),
                idx |-> -1]
     ELSE IF control = EXT_COMMON_VAL
       THEN [kind |-> "CommonRun",
             out |-> Fill(palette_value(info % 16, h), info \div 16),
             next |-> p + 1, reads |-> {p}, idx |-> info % 16]
     ELSE IF mode = MODE_RLE
       THEN [kind |-> "Run", out |-> Fill(info, length), next |-> p + 1,
             reads |-> {p}, idx |-> -1]
     ELSE IF mode = MODE_NIBBLE
       THEN [kind |-> "Nibble", out |-> nibble_expand(buf, n, p, length, g),
             next |-> p + (length \div 2) + (length % 2),
             reads |-> p..(p + (length \div 2) + (length % 2) - 1), idx |-> -1]
     ELSE [kind |-> "Literal",
           out |-> [j \in 1..length |-> Rd(buf, n, p + j - 1, g)],
           next |-> p + length, reads |-> p..(p + length - 1), idx |-> -1]

\* decompress_iteration with the whole info byte taken as the pattern length
decompress_iteration_wide(buf, n, pos, g, h) ==
  LET control == At(buf, pos)
      p == pos + 1
      info == Rd(buf, n, p, g)
      mode == (control \div 64) * 64
      length == control % 64
  IN IF control = EXT_ZERO_RUN
       THEN [kind |-> "ZeroRun", out |-> Fill(0, info), next |-> p + 1,
             reads |-> {p}, idx |-> -1]
     ELSE IF control = EXT_PATTERN
       THEN LET pattern_len == info
                repeat_count == info % 16
                unit == [j \in 1..pattern_len |-> Rd(buf, n, p + j, g)]
            IN [kind |-> "Pattern", out |-> Repeat(unit, repeat_count),
                next |-> p + 1 + pattern_len,
                reads |-> {p} \cup (IF repeat_count > 0 THEN (p + 1)..(p + pattern_len) ELSE {}),
                idx |-> -1]
     ELSE IF control = EXT_COMMON_VAL
       THEN [kind |-> "CommonRun",
             out |-> Fill(palette_value(info % 16, h), info \div 16),
             next |-> p + 1, reads |-> {p}, idx |-> info % 16]
     ELSE IF mode = MODE_RLE
       THEN [kind |-> "Run", out |-> Fill(info, length), next |-> p + 1,
             reads |-> {p}, idx |-> -1]
     ELSE IF mode = MODE_DELTA
       THEN [kind |-> "Delta",
             out |-> delta_expand(info, Rd(buf, n, p + 1, g) - 16, length),
             next |-> p + 2, reads |-> {p, p + 1}, idx |-> -1]
     ELSE IF mode = MODE_NIBBLE
       THEN [kind |-> "Nibble", out |-> nibble_expand(buf, n, p, length, g),
             next |-> p + (length \div 2) + (length % 2),
             reads |-> p..(p + (length \div 2) + (length % 2) - 1), idx |-> -1]
     ELSE [kind |-> "Literal",
           out |-> [j \in 1..length |-> Rd(buf, n, p + j - 1, g)],
           next |-> p + length, reads |-> p..(p + length - 1), idx |-> -1]

\* out: the bytes appended to output; next: in_pos after the iteration;
\* reads: the stream indices read after the control byte; idx: the palette
\* index used (-1 when the palette is not read)
decompress_iteration(buf, n, pos, g, h) ==
  LET control == At(buf, pos)
      p == pos + 1
      info == Rd(buf, n, p, g)
      mode == (control \div 64) * 64
      length == control % 64
  IN IF control = EXT_ZERO_RUN
       THEN [kind |-> "ZeroRun", out |-> Fill(0, info), next |-> p + 1,
             reads |-> {p}, idx |-> -1]
     ELSE IF control = EXT_PATTERN
       THEN LET pattern_len == info \div 16
                repeat_count == info % 16
                unit == [j \in 1..pattern_len |-> Rd(buf, n, p + j, g)]
            IN [kind |-> "Pattern", out |-> Repeat(unit, repeat_count),
                next |-> p + 1 + pattern_len,
                reads |-> {p} \cup (IF repeat_count > 0 THEN (p + 1)..(p + pattern_len) ELSE {}),
                idx |-> -1]
     ELSE IF control = EXT_COMMON_VAL
       THEN [kind |-> "CommonRun",
             out |-> Fill(palette_value(info % 16, h), info \div 16),
             next |-> p + 1, reads |-> {p}, idx |-> info % 16]
     ELSE IF mode = MODE_RLE
       THEN [kind |-> "Run", out |-> Fill(info, length), next |-> p + 1,
             reads |-> {p}, idx |-> -1]
     ELSE IF mode = MODE_DELTA
       THEN [kind |-> "Delta",
             out |-> delta_expand(info, Rd(buf, n, p + 1, g) - 16, length),
             next |-> p + 2, reads |-> {p, p + 1}, idx |-> -1]
     ELSE IF mode = MODE_NIBBLE
       THEN [kind |-> "Nibble", out |-> nibble_expand(buf, n, p, length, g),
             next |-> p + (length \div 2) + (length % 2),
             reads |-> p..(p + (length \div 2) + (length % 2) - 1), idx |-> -1]
     ELSE [kind |-> "Literal",
           out |-> [j \in 1..length |-> Rd(buf, n, p + j - 1, g)],
           next |-> p + length, reads |-> p..(p + length - 1), idx |-> -1]

(***************************************************************************)
(* Inputs of the model                                                     *)
(***************************************************************************)
\* every byte sequence of length 0..MaxLen over a small alphabet: zero,
\* values below 16, a palette value above 127, other values
Alphabet == {0, 1, 2, 5, 65, 128, 255}

SmallInputs == UNION {[1..k -> Alphabet] : k \in 0..MaxLen}

\* arithmetic progressions mod 128, alone or followed by one byte
Prog(s, d, len) == [i \in 1..len |-> (s + (i - 1) * d) % 128]

ProgInputs ==
  {Prog(s, d, len) \o suf : s \in {1, 100}, d \in {-15, 0, 1, 3, 16},
                            len \in 3..MaxProgLen, suf \in {<<>>, <<200>>}}

\* runs of one value above 127, alone or in context
RunInputs ==
  {pre \o Fill(v, len) \o suf : pre \in {<<>>, <<65>>}, v \in {128, 255},
                                len \in 1..MaxRunLen, suf \in {<<>>, <<66, 9>>}}

ZeroInputs == {Fill(0, len) : len \in 1..MaxZeros}

\* a unit repeated; <<18, 52, 86, 120>> is generate_pattern("pattern")
UnitInputs ==
  {Repeat(u, k) : u \in {<<65, 66>>, <<18, 52, 86, 120>>, <<128, 144, 160>>},
                  k \in 2..MaxRepeats}

\* original_example of run_comprehensive_tests
original_example ==
  <<3, 116, 4, 4, 4, 53, 53, 100, 100, 100, 100, 0, 0, 0, 0, 0,
    86, 69, 86, 86, 86, 9, 9, 9>>

\* one byte of 16 or more followed by four bytes below 16
NibbleTailInputs ==
  {<<v>> \o q : v \in {65, 200}, q \in [1..4 -> {0, 1, 2, 5, 9}]}

Inputs ==
  SmallInputs \cup ProgInputs \cup RunInputs \cup ZeroInputs \cup UnitInputs
  \cup NibbleTailInputs \cup {original_example}

\* streams handed to advanced_decompress directly: every sequence of length
\* 1..MaxStreamLen over control bytes of each kind and some payload bytes
StreamBytes == {2, 17, 33, 56, 69, 131, 195, 224, 240, 241, 242}

Streams == UNION {[1..k -> StreamBytes] : k \in 1..MaxStreamLen}

\* values a read behind the stream may return
OobBytes == {0, 19, 127, 200, 255}

(***************************************************************************)
(* State machine                                                           *)
(***************************************************************************)
\* run_single_test: the buffer holds a copy of the input
InitCompress ==
  /\ pc = "compress"
  /\ entry = "roundtrip"
  /\ original_data \in Inputs
  /\ data_ptr = original_data
  /\ data_size = Len(original_data)

\* advanced_decompress called on a stream that is exactly the buffer
InitDecompress ==
  /\ pc = "decompress"
  /\ entry = "decode"
  /\ original_data \in Streams
  /\ data_ptr = original_data
  /\ data_size = Len(data_ptr)

Init ==
  /\ InitCompress \/ InitDecompress
  /\ in_pos = 0
  /\ output = <<>>
  /\ tokens = <<>>
  /\ expanded = <<>>
  /\ oob_read = FALSE
  /\ bad_idx = FALSE

\* one iteration of the while loop of advanced_compress
CompressStep ==
  /\ pc = "compress"
  /\ in_pos < data_size
  /\ LET t == compress_iteration(data_ptr, data_size, in_pos)
     IN /\ output' = output \o t.bytes
        /\ in_pos' = in_pos + t.cover
        /\ tokens' = Append(tokens, [kind |-> t.kind, at |-> in_pos,
                                     cover |-> t.cover, bytes |-> t.bytes])
  /\ UNCHANGED <<pc, entry, original_data, data_ptr, data_size, expanded,
                 oob_read, bad_idx>>

\* advanced_compress copies output over the buffer and returns out_pos;
\* run_single_test copies those compressed_size bytes into verify_buffer
CompressReturn ==
  /\ pc = "compress"
  /\ in_pos >= data_size
  /\ pc' = "decompress"
  /\ data_ptr' = output
  /\ data_size' = Len(output)
  /\ in_pos' = 0
  /\ output' = <<>>
  /\ UNCHANGED <<entry, original_data, tokens, expanded, oob_read, bad_idx>>

\* one iteration of the while loop of advanced_decompress
DecompressStep ==
  /\ pc = "decompress"
  /\ in_pos < data_size
  /\ \E g \in OobBytes, h \in OobBytes :
       LET d == decompress_iteration(data_ptr, data_size, in_pos, g, h)
       IN /\ output' = output \o d.out
          /\ in_pos' = d.next
          /\ oob_read' = (oob_read \/ \E r \in d.reads : r >= data_size)
          /\ bad_idx' = (bad_idx \/ d.idx >= NUM_COMMON_VALUES)
          /\ expanded' = Append(expanded, [kind |-> d.kind, at |-> in_pos,
                                           control |-> At(data_ptr, in_pos),
                                           idx |-> d.idx,
                                           wrote |-> Len(d.out)])
  /\ UNCHANGED <<pc, entry, original_data, data_ptr, data_size, tokens>>

\* advanced_decompress copies output over the buffer and returns out_pos
DecompressReturn ==
  /\ pc = "decompress"
  /\ in_pos >= data_size
  /\ pc' = "done"
  /\ data_ptr' = output
  /\ data_size' = Len(output)
  /\ UNCHANGED <<entry, original_data, in_pos, output, tokens, expanded,
                 oob_read, bad_idx>>

Next == CompressStep \/ CompressReturn \/ DecompressStep \/ DecompressReturn

Spec == Init /\ [][Next]_vars

(***************************************************************************)
(* The baseline codec: simple_rle_compress and simple_rle_decompress,      *)
(* driven by run_single_test as algorithms[0].  in_pos stands for          *)
(* read_pos, output for temp_buffer[0 .. write_pos-1].                     *)
(***************************************************************************)
RLE_FLAG == 128
MIN_RUN_LENGTH == 2
MAX_RUN_LENGTH == 127

MaxRleRun == 130
MaxRleLiteral == 130

\* rle_run_scan with the cap test off by one (run_length <= MAX_RUN_LENGTH)
rle_run_scan_over(data, n, pos) ==
  LET Cont(run_length) ==
        /\ pos + run_length < n
        /\ At(data, pos + run_length) = At(data, pos)
        /\ run_length <= MAX_RUN_LENGTH
  IN LoopExit({k \in 1..n : ~Cont(k)})

\* the run loop of simple_rle_compress (and its look-ahead loop, which is
\* the same loop at the literal cursor): the final run_length
rle_run_scan(data, n, pos) ==
  LET Cont(run_length) ==
        /\ pos + run_length < n
        /\ At(data, pos + run_length) = At(data, pos)
        /\ run_length < MAX_RUN_LENGTH
  IN LoopExit({k \in 1..n : ~Cont(k)})

\* the literal loop of simple_rle_compress: the final literal_count; an
\* iteration that does not break has ahead_run = 1 and advances by it
rle_literal_scan(data, n, pos) ==
  LET Cont(literal_count) ==
        /\ pos + literal_count < n
        /\ literal_count < MAX_RUN_LENGTH
        /\ ~(rle_run_scan(data, n, pos + literal_count) >= MIN_RUN_LENGTH)
  IN LoopExit({k \in 0..MAX_RUN_LENGTH : ~Cont(k)})

\* one iteration of the main loop of simple_rle_compress at cursor pos
rle_compress_iteration(data, n, pos) ==
  LET current_byte == At(data, pos)
      run_length == rle_run_scan(data, n, pos)
      literal_count == rle_literal_scan(data, n, pos)
  IN IF run_length >= MIN_RUN_LENGTH
       THEN [kind |-> "Run",
             bytes |-> <<BitOr(RLE_FLAG, U8(run_length)), current_byte>>,
             cover |-> run_length]
       ELSE [kind |-> "Literal",
             bytes |-> <<U8(literal_count)>> \o Slice(data, pos, literal_count),
             cover |-> literal_count]

\* one iteration of the main loop of simple_rle_decompress at cursor pos
rle_decompress_iteration(buf, n, pos) ==
  LET control_byte == At(buf, pos)
      p == pos + 1
      copied == IF control_byte < n - p THEN control_byte ELSE n - p
  IN IF control_byte >= RLE_FLAG
       THEN IF p < n
              THEN [kind |-> "Run", out |-> Fill(At(buf, p), control_byte % 128),
                    next |-> p + 1]
              ELSE [kind |-> "Run", out |-> <<>>, next |-> p]
       ELSE [kind |-> "Literal", out |-> Slice(buf, p, copied), next |-> p + copied]

\* runs up to and beyond MAX_RUN_LENGTH, alone or in context
RleRunInputs ==
  {pre \o Fill(v, len) \o suf : pre \in {<<>>, <<65>>}, v \in {0, 200},
                                len \in 1..MaxRleRun, suf \in {<<>>, <<66>>}}

\* sequences without two equal neighbours, up to and beyond MAX_RUN_LENGTH
RleLiteralInputs ==
  {[i \in 1..len |-> (7 * i) % 256] \o suf : len \in 1..MaxRleLiteral,
                                             suf \in {<<>>, <<9, 9, 9>>}}

RleInputs == Inputs \cup RleRunInputs \cup RleLiteralInputs

InitRle ==
  /\ pc = "compress"
  /\ entry = "rle"
  /\ original_data \in RleInputs
  /\ data_ptr = original_data
  /\ data_size = Len(original_data)
  /\ in_pos = 0
  /\ output = <<>>
  /\ tokens = <<>>
  /\ expanded = <<>>
  /\ oob_read = FALSE
  /\ bad_idx = FALSE

RleCompressStep ==
  /\ pc = "compress"
  /\ in_pos < data_size
  /\ LET t == rle_compress_iteration(data_ptr, data_size, in_pos)
     IN /\ output' = output \o t.bytes
        /\ in_pos' = in_pos + t.cover
        /\ tokens' = Append(tokens, [kind |-> t.kind, at |-> in_pos,
                                     cover |-> t.cover, bytes |-> t.bytes])
  /\ UNCHANGED <<pc, entry, original_data, data_ptr, data_size, expanded,
                 oob_read, bad_idx>>

\* simple_rle_compress copies temp_buffer over the buffer and returns
\* write_pos; run_single_test copies those bytes into verify_buffer
RleCompressReturn ==
  /\ pc = "compress"
  /\ in_pos >= data_size
  /\ pc' = "decompress"
  /\ data_ptr' = output
  /\ data_size' = Len(output)
  /\ in_pos' = 0
  /\ output' = <<>>
  /\ UNCHANGED <<entry, original_data, tokens, expanded, oob_read, bad_idx>>

RleDecompressStep ==
  /\ pc = "decompress"
  /\ in_pos < data_size
  /\ LET d == rle_decompress_iteration(data_ptr, data_size, in_pos)
     IN /\ output' = output \o d.out
        /\ in_pos' = d.next
        /\ expanded' = Append(expanded, [kind |-> d.kind, at |-> in_pos,
                                         control |-> At(data_ptr, in_pos),
                                         idx |-> -1,
                                         wrote |-> Len(d.out)])
  /\ UNCHANGED <<pc, entry, original_data, data_ptr, data_size, tokens,
                 oob_read, bad_idx>>

RleDecompressReturn ==
  /\ pc = "decompress"
  /\ in_pos >= data_size
  /\ pc' = "done"
  /\ data_ptr' = output
  /\ data_size' = Len(output)
  /\ UNCHANGED <<entry, original_data, in_pos, output, tokens, expanded,
                 oob_read, bad_idx>>

NextRle ==
  RleCompressStep \/ RleCompressReturn \/ RleDecompressStep \/ RleDecompressReturn

SpecRle == InitRle /\ [][NextRle]_vars

(***************************************************************************)
(* Vocabulary of the properties                                            *)
(***************************************************************************)
\* run_single_test has compressed and decompressed original_data
RoundTripDone == entry = "roundtrip" /\ pc = "done"

\* advanced_compress has returned (tokens is the whole encoding)
Encoded == entry = "roundtrip" /\ pc # "compress"

TokenKinds == {tokens[k].kind : k \in 1..Len(tokens)}

AllBelow(s, bound) == \A i \in 1..Len(s) : s[i] < bound

\* the result of advanced_decompress: its only exit is the return of out_pos
\* after the loop, so no call ends in an error
DecompressOutcome == IF pc = "done" THEN "Ok" ELSE "Running"

(***************************************************************************)
(* C1.  For every input whose bytes are all in 0..127, of any length       *)
(* (32, 48, 49, 50 and more included), decompressing the compressed input  *)
(* returns the input's length and reproduces the input exactly.            *)
(***************************************************************************)
RoundTripRestricted ==
  (RoundTripDone /\ AllBelow(original_data, 128))
    => (data_size = Len(original_data) /\ data_ptr = original_data)

(***************************************************************************)
(* C2.  For every input over 0..255 whose encoding holds only Literal,     *)
(* Run, CommonRun, ZeroRun and Pattern tokens (no Delta, no Nibble),       *)
(* decompressing the compressed input reproduces the input exactly.        *)
(***************************************************************************)
RoundTripNonArithmetic ==
  (RoundTripDone /\ TokenKinds \cap {"Delta", "Nibble"} = {})
    => (data_size = Len(original_data) /\ data_ptr = original_data)

\* a finished round trip of an input with bytes above 127 that was encoded
\* with Literal, Run and CommonRun tokens only
RoundTripNonArithmeticWitness ==
  /\ RoundTripDone
  /\ ~AllBelow(original_data, 128)
  /\ TokenKinds = {"Literal", "CommonRun"}
  /\ data_ptr = original_data

(***************************************************************************)
(* C3.  When a control byte of the stream requires more trailing bytes     *)
(* than remain (the cursor ends beyond the stream), the decoder ends in a  *)
(* truncation error and has read no index >= the stream length.            *)
(***************************************************************************)
TruncatedStreamRejected ==
  (entry = "decode" /\ pc = "done" /\ in_pos > Len(original_data))
    => (DecompressOutcome = "Truncated" /\ ~oob_read)

(***************************************************************************)
(* C4.  At a cursor where a unit of 2..16 bytes is repeated at least twice *)
(* and ZeroRun, Delta and Nibble do not apply, the encoder emits a Pattern *)
(* token for the unit length with the highest score count*p - (2+p); a     *)
(* 2-byte unit repeated 10 times is one Pattern token of unit length 2 and *)
(* count 10.                                                               *)
(***************************************************************************)
\* unit lengths that repeat at least twice at position at
RepeatingLengths(data, at) ==
  {p \in 2..16 : at + 2 * p <= Len(data)
                 /\ Slice(data, at, p) = Slice(data, at + p, p)}

RepeatCount(data, at, p) == pattern_matches(data, at, Len(data), p)

Saved(data, at, p) == RepeatCount(data, at, p) * p - (2 + p)

\* the unit length with the highest score, the shortest among equals
BestLength(data, at) ==
  CHOOSE p \in RepeatingLengths(data, at) :
    \A q \in RepeatingLengths(data, at) :
      \/ Saved(data, at, p) > Saved(data, at, q)
      \/ (Saved(data, at, p) = Saved(data, at, q) /\ p <= q)

PatternApplies(data, at) ==
  /\ RepeatingLengths(data, at) # {}
  /\ ~(At(data, at) = 0 /\ zero_scan(data, Len(data), at) >= 3)
  /\ ~is_delta_sequence(data, at, Len(data)).ok
  /\ ~can_nibble_pack(data, at, Len(data)).ok

PatternSelected ==
  /\ entry = "roundtrip" =>
       \A k \in 1..Len(tokens) :
         PatternApplies(original_data, tokens[k].at) =>
           /\ tokens[k].kind = "Pattern"
           /\ tokens[k].cover =
                BestLength(original_data, tokens[k].at)
                * RepeatCount(original_data, tokens[k].at,
                              BestLength(original_data, tokens[k].at))
  /\ (Encoded /\ original_data = Repeat(<<65, 66>>, 10)) =>
       tokens = <<[kind |-> "Pattern", at |-> 0, cover |-> 20,
                   bytes |-> <<EXT_PATTERN, 2 * 16 + 10, 65, 66>>]>>

(***************************************************************************)
(* C5.  The 24-byte example round-trips; its five zero bytes are one       *)
(* ZeroRun token (0xF0, 5) and its four 0x64 bytes are one Run token       *)
(* (0x80|4, 0x64).                                                         *)
(***************************************************************************)
WorkedVectorTokens ==
  (RoundTripDone /\ original_data = original_example) =>
    /\ data_ptr = original_data
    /\ \E k \in 1..Len(tokens) :
         tokens[k] = [kind |-> "ZeroRun", at |-> 11, cover |-> 5,
                      bytes |-> <<EXT_ZERO_RUN, 5>>]
    /\ \E k \in 1..Len(tokens) :
         tokens[k] = [kind |-> "Run", at |-> 7, cover |-> 4,
                      bytes |-> <<MODE_RLE + 4, 100>>]

(***************************************************************************)
(* C6.  For an input of n >= 3 zero bytes, every token emitted while at    *)
(* least 3 zeros remain is a ZeroRun covering min(255, remaining) zeros    *)
(* with that count in its count byte; 300 zeros give exactly the two       *)
(* ZeroRun tokens 255 and 45; the stream decodes back to the n zeros.      *)
(***************************************************************************)
Min(a, b) == IF a < b THEN a ELSE b

AllZeros(s) == \A i \in 1..Len(s) : s[i] = 0

ZeroRunChunking ==
  (entry = "roundtrip" /\ AllZeros(original_data) /\ Len(original_data) >= 3) =>
    /\ \A k \in 1..Len(tokens) :
         LET remaining == Len(original_data) - tokens[k].at
         IN remaining >= 3 =>
              /\ tokens[k].kind = "ZeroRun"
              /\ tokens[k].cover = Min(255, remaining)
              /\ tokens[k].bytes = <<EXT_ZERO_RUN, Min(255, remaining)>>
    /\ (pc # "compress" /\ Len(original_data) = 300) =>
         /\ Len(tokens) = 2
         /\ tokens[1].bytes = <<EXT_ZERO_RUN, 255>>
         /\ tokens[2].bytes = <<EXT_ZERO_RUN, 45>>
    /\ pc = "done" => data_ptr = original_data

\* 300 zeros have been encoded as two tokens and decoded
ZeroRunChunkingWitness ==
  /\ RoundTripDone
  /\ original_data = Fill(0, 300)
  /\ Len(tokens) = 2
  /\ data_ptr = original_data

(***************************************************************************)
(* C7.  Every Run, CommonRun and ZeroRun token the encoder emits covers at *)
(* least 3 input bytes, all equal; the input [5,5] is encoded as the       *)
(* single token Literal(2), bytes 0x02 0x05 0x05.                          *)
(***************************************************************************)
RunThreshold ==
  entry = "roundtrip" =>
    /\ \A k \in 1..Len(tokens) :
         tokens[k].kind \in {"Run", "CommonRun", "ZeroRun"} =>
           /\ tokens[k].cover >= 3
           /\ \A j \in 1..tokens[k].cover :
                original_data[tokens[k].at + j] = original_data[tokens[k].at + 1]
    /\ (pc # "compress" /\ original_data = <<5, 5>>) =>
         /\ tokens = <<[kind |-> "Literal", at |-> 0, cover |-> 2,
                        bytes |-> <<2, 5, 5>>]>>
         /\ (pc = "decompress" => data_ptr = <<2, 5, 5>>)

\* [5,5] has been compressed to the three bytes of one literal token
RunThresholdWitness ==
  /\ entry = "roundtrip"
  /\ pc = "decompress"
  /\ original_data = <<5, 5>>
  /\ data_ptr = <<2, 5, 5>>

(***************************************************************************)
(* C8.  After every iteration of the encoder's loop the bytes written are  *)
(* at most twice the input bytes consumed, hence at most 2 * data_size:    *)
(* the encoding fits the 2 * data_size bytes allocated for output.         *)
(***************************************************************************)
EncoderOutputBound ==
  (entry = "roundtrip" /\ pc = "compress") =>
    /\ Len(output) <= 2 * in_pos
    /\ Len(output) <= 2 * data_size

\* the bound is reached: a one-byte literal token takes two bytes
EncoderOutputBoundWitness ==
  /\ entry = "roundtrip"
  /\ pc = "compress"
  /\ in_pos >= 1
  /\ Len(output) = 2 * in_pos

(***************************************************************************)
(* C9.  When the decoder expands a CommonRun escape whose info byte has a  *)
(* low nibble in 8..15, it ends in an invalid-palette-index error and has  *)
(* not indexed the palette outside 0..7.                                   *)
(***************************************************************************)
InvalidPaletteIndexRejected ==
  (entry = "decode" /\ pc = "done"
   /\ \E k \in 1..Len(expanded) :
        /\ expanded[k].kind = "CommonRun"
        /\ expanded[k].at + 1 < Len(original_data)
        /\ expanded[k].idx >= NUM_COMMON_VALUES)
    => (DecompressOutcome = "InvalidPaletteIndex" /\ ~bad_idx)

(***************************************************************************)
(* C10.  No token the encoder emits has the control byte 0xF1.             *)
(***************************************************************************)
NeverEmitsReservedEscape ==
  entry = "roundtrip" =>
    \A k \in 1..Len(tokens) : tokens[k].bytes[1] # EXT_INCR_SEQ

(***************************************************************************)
(* C11.  Every iteration of the encoder's loop emits exactly one token and *)
(* advances in_pos by that token's coverage, at least 1; in_pos never      *)
(* exceeds the input length; the loop is left only with in_pos equal to    *)
(* the input length.  in_pos rising at every iteration and never passing   *)
(* data_size, the loop runs at most data_size iterations: it terminates.   *)
(***************************************************************************)
EncoderTermination ==
  /\ [][(pc = "compress" /\ pc' = "compress") =>
         /\ in_pos' >= in_pos + 1
         /\ Len(tokens') = Len(tokens) + 1
         /\ tokens'[Len(tokens')].cover = in_pos' - in_pos
         /\ data_size' = data_size]_vars
  /\ [](pc = "compress" => in_pos <= data_size)
  /\ [][(pc = "compress" /\ pc' # "compress") => in_pos = data_size]_vars

\* the loop has emitted three tokens or more and stands at the input's end
EncoderTerminationWitness ==
  /\ entry = "roundtrip"
  /\ pc = "compress"
  /\ Len(tokens) >= 3
  /\ in_pos = data_size

(***************************************************************************)
(* C12.  For every non-empty input over 0..255, simple_rle_decompress of   *)
(* simple_rle_compress of the input returns the input's length and the     *)
(* input; run tokens carry a length 2..127 under the 0x80 flag, literal    *)
(* tokens a count 1..127 with the flag clear.                              *)
(***************************************************************************)
RleRoundTrip ==
  (entry = "rle" /\ Len(original_data) >= 1) =>
    /\ \A k \in 1..Len(tokens) :
         /\ tokens[k].kind = "Run" =>
              /\ tokens[k].cover \in 2..127
              /\ tokens[k].bytes[1] = 128 + tokens[k].cover
         /\ tokens[k].kind = "Literal" =>
              /\ tokens[k].cover \in 1..127
              /\ tokens[k].bytes[1] = tokens[k].cover
    /\ pc = "done" =>
         (data_size = Len(original_data) /\ data_ptr = original_data)

\* a finished round trip through a run token of the full length 127, a
\* further run token and a literal token
RleRoundTripWitness ==
  /\ entry = "rle"
  /\ pc = "done"
  /\ \E k \in 1..Len(tokens) : tokens[k].kind = "Run" /\ tokens[k].cover = 127
  /\ \E k \in 1..Len(tokens) : tokens[k].kind = "Literal"
  /\ Len(tokens) >= 3
  /\ data_ptr = original_data

(***************************************************************************)
(* C13.  Every Literal token the encoder emits covers at most 63 bytes,    *)
(* and at no input position the token covers would ZeroRun, DeltaSequence, *)
(* NibblePack, PatternMatch or RunLength have been accepted if evaluated   *)
(* at that position.  The literal loop tests the run of three and the      *)
(* delta sequence only, so a token can cover four bytes below 16.          *)
(***************************************************************************)
StrategyAccepted(p) ==
  LET data == original_data
      n == Len(original_data)
      pattern == find_pattern(data, p, n)
  IN \/ At(data, p) = 0 /\ zero_scan(data, n, p) >= 3
     \/ is_delta_sequence(data, p, n).ok
     \/ can_nibble_pack(data, p, n).ok
     \/ pattern.count >= 2 /\ pattern.length >= 2
     \/ run_scan(data, n, p) >= MinRun

LiteralSwallowsNothing ==
  entry = "roundtrip" =>
    \A k \in 1..Len(tokens) :
      tokens[k].kind = "Literal" =>
        /\ tokens[k].cover <= 63
        /\ \A p \in tokens[k].at .. (tokens[k].at + tokens[k].cover - 1) :
             ~StrategyAccepted(p)

(***************************************************************************)
(* C14.  Sentinel overlap.  A Delta token of length 32, 48 or 50 is        *)
(* serialized with control byte 0xE0, 0xF0 or 0xF2, and the decoder, which *)
(* tests the escape values before it splits mode and length, expands the   *)
(* token as a Pattern, ZeroRun or CommonRun escape and not as a Delta.     *)
(* The control bytes of Literal, Run and Nibble tokens and of Delta tokens *)
(* of every other length are never 0xE0, 0xF0 or 0xF2.                     *)
(***************************************************************************)
RECURSIVE TokenOffset(_)
TokenOffset(k) ==
  IF k = 1 THEN 0 ELSE TokenOffset(k - 1) + Len(tokens[k - 1].bytes)

OverlapLengths == {32, 48, 50}

EscapeFor(length) ==
  IF length = 32 THEN [control |-> EXT_PATTERN, kind |-> "Pattern"]
  ELSE IF length = 48 THEN [control |-> EXT_ZERO_RUN, kind |-> "ZeroRun"]
  ELSE [control |-> EXT_COMMON_VAL, kind |-> "CommonRun"]

SentinelOverlap ==
  entry = "roundtrip" =>
    \A k \in 1..Len(tokens) :
      LET t == tokens[k]
          control == t.bytes[1]
      IN /\ (t.kind = "Delta" /\ t.cover \in OverlapLengths) =>
              /\ control = EscapeFor(t.cover).control
              /\ \A j \in 1..Len(expanded) :
                   expanded[j].at = TokenOffset(k) =>
                     /\ expanded[j].control = control
                     /\ expanded[j].kind = EscapeFor(t.cover).kind
         /\ (\/ t.kind \in {"Literal", "Run", "Nibble"}
             \/ t.kind = "Delta" /\ t.cover \notin OverlapLengths) =>
              control \notin {EXT_PATTERN, EXT_ZERO_RUN, EXT_COMMON_VAL}

\* the decoder has finished a stream whose first token is a Delta token of
\* 50 bytes, expanded as a CommonRun escape, and the stream holds a
\* Literal token too
SentinelOverlapWitness ==
  /\ entry = "roundtrip"
  /\ pc = "done"
  /\ Len(tokens) >= 2
  /\ tokens[1].kind = "Delta" /\ tokens[1].cover = 50
  /\ tokens[1].bytes[1] = EXT_COMMON_VAL
  /\ \E k \in 1..Len(tokens) : tokens[k].kind = "Literal"
  /\ expanded[1].at = 0 /\ expanded[1].kind = "CommonRun"

(***************************************************************************)
(* C15.  Decoder output bound.  For every stream of length m >= 1 handed   *)
(* to advanced_decompress, well formed or not, with the bytes read beyond  *)
(* the stream arbitrary, each iteration of the loop consumes at least one  *)
(* byte and writes at most 255 bytes, so the output position never exceeds *)
(* 255 * m and every write stays inside the allocation of m * 256 bytes.   *)
(***************************************************************************)
DecoderOutputBound ==
  /\ [][(pc = "decompress" /\ pc' = "decompress") =>
         /\ in_pos' >= in_pos + 1
         /\ Len(output') - Len(output) \in 0..255
         /\ Len(expanded') = Len(expanded) + 1
         /\ data_size' = data_size]_vars
  /\ []((pc = "decompress" /\ data_size >= 1) =>
         /\ Len(expanded) <= in_pos
         /\ Len(expanded) <= data_size
         /\ Len(output) <= 255 * Len(expanded)
         /\ Len(output) <= 255 * data_size
         /\ Len(output) < data_size * 256)

\* a stream given to the decoder directly, in which one iteration read
\* beyond the stream and wrote the full 255 bytes
DecoderOutputBoundWitness ==
  /\ entry = "decode"
  /\ pc = "decompress"
  /\ oob_read
  /\ \E j \in 1..Len(expanded) : expanded[j].wrote = 255
  /\ Len(output) >= 255

====
